---- MODULE Spec2Model ----
(***************************************************************************)
(* Authentication core of the InternAI backend: password recovery          *)
(* (request_password_reset / reset_password), registration gated by a PIN  *)
(* (register / resend_pin / verify_pin) and cookie sessions                *)
(* (login / get_current_user_with_refresh / refresh / logout).             *)
(*                                                                         *)
(* Time is counted in minutes.  Request handlers that touch the database   *)
(* more than once are split at their database statements: every handler    *)
(* runs in its own AsyncSession (db/session.py get_db), nothing is visible *)
(* to other handlers before commit(), and no statement takes a lock        *)
(* before the flush inside commit().                                       *)
(***************************************************************************)
EXTENDS Integers, FiniteSets, Sequences, TLC

\* ------------------------------------------------------------------ bounds
MaxTicks == 1
MaxTokens == 2
MaxRows == 2

\* ------------------------------------------------------- program constants
ACCESS_TOKEN_EXPIRE_MINUTES == 30
REFRESH_TOKEN_EXPIRE_DAYS == 30
DEFAULT_ACCESS_MINUTES == 15
PIN_EXPIRE_MINUTES == 10
RESET_TOKEN_EXPIRE_MINUTES == 60

VARIABLES
    now,          \* datetime.utcnow(), in minutes
    ticks,        \* number of clock advances so far (bounded)
    users,        \* table users
    pending,      \* table pending_users
    resetTokens,  \* table password_reset_tokens
    nextId,       \* next primary key (uuid4 is modelled as a fresh number)
    nextTok,      \* next raw reset token (token generation is random)
    procs,        \* in-flight request handlers, one AsyncSession each
    redeemed,     \* history: raw token -> number of successful reset_password
    credApplied,  \* history: ids of token rows whose redemption wrote the hash
    cfgAccess,    \* settings.ACCESS_TOKEN_EXPIRE_MINUTES (from the environment)
    environment,  \* os.getenv("ENVIRONMENT", "development")
    kept,         \* a refresh token the client has copied out of its cookies
    jar,          \* the browser's cookies access_token / refresh_token
    res           \* the request answered in the last step and its response
                  \* (NoRes when the last step answered nothing)

vars == <<now, ticks, users, pending, resetTokens, nextId, nextTok, procs,
          redeemed, credApplied, cfgAccess, environment, kept, jar, res>>

\* two request handlers may be in flight at a time
Procs == {"h1", "h2"}
RawTokens == 0..MaxTokens

Emails == {"a@x.com", "ghost@x.com"}
NewPasswords == {"pw1", "pw2"}
RegEmails == {"a@x.com"}
RegNames == {"Ann"}
RegPasswords == {"secret1"}
\* generate_pin_code draws from 100000..999999; two of its values
PinCodes == {"123456", "654321"}

\* ------------------------------------------------------------ pure helpers
\* passlib bcrypt: one-way digest; verify_password(p, h) holds iff h was
\* made from p (the random salt is not modelled).
get_password_hash(password) == <<"bcrypt", password>>

verify_password(plain, hashed) == hashed = get_password_hash(plain)

\* hashlib.sha256(raw.encode()).hexdigest(): deterministic and injective
Sha256(raw) == <<"sha256", raw>>

get_reset_token_expiration(t) == t + RESET_TOKEN_EXPIRE_MINUTES

get_pin_expiration(t) == t + PIN_EXPIRE_MINUTES

\* is_pin_valid with the expiry test left out.
is_pin_valid_NoExpiry(pin_code, pin_expires, provided_pin, t) ==
    /\ pin_code # ""
    /\ pin_code = provided_pin

\* is_pin_valid with the comparison of the codes left out.
is_pin_valid_AnyCode(pin_code, pin_expires, provided_pin, t) ==
    /\ pin_code # ""
    /\ ~(t > pin_expires)

\* email_service.py 109-127; t is datetime.utcnow()
is_pin_valid(pin_code, pin_expires, provided_pin, t) ==
    /\ pin_code # ""
    /\ ~(t > pin_expires)
    /\ pin_code = provided_pin

\* local state of a handler that is not running
Idle == [pc |-> "idle", op |-> "none", email |-> "", name |-> "", pw |-> "",
         code |-> "", tok |-> 0, exp |-> 0, rows |-> {}, del |-> {}]

NoRes == [op |-> "none", out |-> "none", detail |-> "", email |-> "",
          code |-> "", tok |-> 0, uid |-> 0, sent |-> FALSE,
          reqAccess |-> {}, reqRefresh |-> {}, setCookies |-> FALSE,
          cookies |-> {}]

\* The step answers request r; a step that answers nothing leaves NoRes.
Reply(r) == r
Silent == res' = NoRes

EmptyJar == [access |-> {}, refresh |-> {}]

\* ---------------------------------------------------------------- tokens
\* A JWT is its payload plus whether the signature matches SECRET_KEY.
create_access_token_Untyped(sub, is_admin, expires_delta, t) ==
    [sub |-> sub, is_admin |-> is_admin, type |-> "",
     exp |-> t + (IF expires_delta # 0 THEN expires_delta
                  ELSE DEFAULT_ACCESS_MINUTES),
     sig |-> "ok"]

\* security.py 31-42; timedelta(0) is falsy, so a delta of 0 takes the
\* 15 minute default.
create_access_token(sub, is_admin, expires_delta, t) ==
    [sub |-> sub, is_admin |-> is_admin, type |-> "access",
     exp |-> t + (IF expires_delta # 0 THEN expires_delta
                  ELSE DEFAULT_ACCESS_MINUTES),
     sig |-> "ok"]

\* security.py 44-52
create_refresh_token(sub, t) ==
    [sub |-> sub, is_admin |-> FALSE, type |-> "refresh",
     exp |-> t + REFRESH_TOKEN_EXPIRE_DAYS * 24 * 60,
     sig |-> "ok"]

\* jwt.decode that does not verify exp.
JwtDecodes_NoExp(tok, t) == tok.sig = "ok"

\* jose jwt.decode: JWTError unless the signature matches and exp is not
\* before the current time.
JwtDecodes(tok, t) ==
    /\ tok.sig = "ok"
    /\ ~(tok.exp < t)

\* security.py 54-66: the user id, or 0 for None
verify_refresh_token(tok, t) ==
    IF JwtDecodes(tok, t) /\ tok.type = "refresh" THEN tok.sub ELSE 0

\* The pair every login-success path mints (auth.py 211-215, 121-125,
\* 325-329; security.py 216-220, 276-280).
IssueSession(user, t, cfg) ==
    [access |-> {create_access_token(user.id, user.is_admin, cfg, t)},
     refresh |-> {create_refresh_token(user.id, t)}]

\* str.lower() on the environment names used here
Lower(str) == IF str = "Production" THEN "production" ELSE str

\* security.py 98:
\* os.getenv("ENVIRONMENT", "development").lower() == "production"
is_production == Lower(environment) = "production"

\* security.py 95-120: the Set-Cookie headers written for a token pair;
\* max_age is in seconds and follows the settings, not the tokens.
set_auth_cookies(access_token, refresh_token, cfg) ==
    {[key |-> "access_token", value |-> access_token,
      max_age |-> cfg * 60,
      httponly |-> TRUE, secure |-> is_production,
      samesite |-> "lax", path |-> "/"],
     [key |-> "refresh_token", value |-> refresh_token,
      max_age |-> REFRESH_TOKEN_EXPIRE_DAYS * 24 * 60 * 60,
      httponly |-> TRUE, secure |-> is_production,
      samesite |-> "lax", path |-> "/"]}

\* the headers for the pair held in the cookie jar j
BindCookies(j, cfg) ==
    UNION {set_auth_cookies(a, r, cfg) : a \in j.access, r \in j.refresh}

\* ------------------------------------------------------------------- clock
\* The clock jumps to an instant at which something expires, or to the
\* minute after it: a stored PIN or reset token (Tick), a cookie's token
\* (TickSession).
Advance(deadlines) ==
    /\ ticks < MaxTicks
    /\ \E t \in deadlines \cup {d + 1 : d \in deadlines} :
          /\ t > now
          /\ now' = t
    /\ ticks' = ticks + 1
    /\ Silent
    /\ UNCHANGED <<users, pending, resetTokens, nextId, nextTok, procs,
                   redeemed, credApplied, cfgAccess, environment, kept, jar>>

Tick ==
    Advance({r.expires_at : r \in resetTokens}
            \cup {r.pin_expires : r \in pending})

TickSession == Advance({t.exp : t \in jar.access \cup jar.refresh \cup kept})

\* ------------------------------------------------- request_password_reset
\* auth.py 579-582: the one message request_password_reset answers with
ResetRequestMessage ==
    "If an account with that email exists, you will receive a password reset link."

\* RequestStart that tells the caller when the email is unknown.
RequestStart_Reveals(p, email) ==
    /\ procs[p].pc = "idle"
    /\ LET found == {u \in users : u.email = email} IN
       IF found = {}
       THEN /\ res' = Reply([NoRes EXCEPT !.op = "request",
                                          !.out = "NotFound",
                                          !.detail = "User not found",
                                          !.email = email])
            /\ UNCHANGED <<procs, nextTok>>
       ELSE /\ nextTok <= MaxTokens
            /\ procs' = [procs EXCEPT ![p] =
                    [Idle EXCEPT !.pc = "req_delete", !.op = "request",
                                 !.email = email, !.tok = nextTok,
                                 !.exp = get_reset_token_expiration(now),
                                 !.rows = found]]
            /\ nextTok' = nextTok + 1
            /\ Silent
    /\ UNCHANGED <<now, ticks, users, pending, resetTokens, nextId,
                   redeemed, credApplied, cfgAccess, environment, kept, jar>>

\* auth.py 533-542: look the user up by email; no user -> success at once
\* (576-582).  Otherwise the raw token and its expiry are generated.
RequestStart(p, email) ==
    /\ procs[p].pc = "idle"
    /\ LET found == {u \in users : u.email = email} IN
       IF found = {}
       THEN /\ res' = Reply([NoRes EXCEPT !.op = "request", !.out = "ok",
                                          !.detail = ResetRequestMessage,
                                          !.email = email])
            /\ UNCHANGED <<procs, nextTok>>
       ELSE /\ nextTok <= MaxTokens
            /\ procs' = [procs EXCEPT ![p] =
                    [Idle EXCEPT !.pc = "req_delete", !.op = "request",
                                 !.email = email, !.tok = nextTok,
                                 !.exp = get_reset_token_expiration(now),
                                 !.rows = found]]
            /\ nextTok' = nextTok + 1
            /\ Silent
    /\ UNCHANGED <<now, ticks, users, pending, resetTokens, nextId,
                   redeemed, credApplied, cfgAccess, environment, kept, jar>>

\* auth.py 545: DELETE ... WHERE user_id = user.id, inside the transaction:
\* the rows it hits are fixed now, they disappear for others at commit.
RequestDelete(p) ==
    /\ procs[p].pc = "req_delete"
    /\ LET uids == {u.id : u \in procs[p].rows} IN
       procs' = [procs EXCEPT ![p].pc = "req_commit",
                              ![p].del = {r.id : r \in
                                   {x \in resetTokens : x.user_id \in uids}}]
    /\ Silent
    /\ UNCHANGED <<now, ticks, users, pending, resetTokens, nextId, nextTok,
                   redeemed, credApplied, cfgAccess, environment, kept, jar>>

\* auth.py 548-582: insert the hashed token, commit, send the mail (its
\* result is only logged) and answer success.
RequestCommit(p) ==
    /\ procs[p].pc = "req_commit"
    /\ \E u \in procs[p].rows :
          resetTokens' = {r \in resetTokens : r.id \notin procs[p].del}
              \cup {[id |-> nextId, user_id |-> u.id,
                     token |-> Sha256(procs[p].tok),
                     expires_at |-> procs[p].exp,
                     is_used |-> FALSE]}
    /\ nextId' = nextId + 1
    /\ procs' = [procs EXCEPT ![p] = Idle]
    /\ \E sent \in BOOLEAN :
          res' = Reply([NoRes EXCEPT !.op = "request", !.out = "ok",
                                     !.detail = ResetRequestMessage,
                                     !.email = procs[p].email,
                                     !.tok = procs[p].tok, !.sent = sent])
    /\ UNCHANGED <<now, ticks, users, pending, nextTok,
                   redeemed, credApplied, cfgAccess, environment, kept, jar>>

\* --------------------------------------------------------- reset_password
\* ResetLookup without the is_used filter.
ResetLookup_IgnoresUsed(hashed, t) ==
    {r \in resetTokens :
        /\ r.token = hashed
        /\ r.expires_at > t
        /\ \E u \in users : u.id = r.user_id}

\* auth.py 596-604: SELECT the token row by hash WHERE is_used = false AND
\* expires_at > utcnow(), joined with its user.
ResetLookup(hashed, t) ==
    {r \in resetTokens :
        /\ r.token = hashed
        /\ r.is_used = FALSE
        /\ r.expires_at > t
        /\ \E u \in users : u.id = r.user_id}

\* auth.py 593-614: hash the raw token, look it up, 400 if nothing found.
ResetSelect(p, raw, pw) ==
    /\ procs[p].pc = "idle"
    /\ LET found == ResetLookup(Sha256(raw), now) IN
       IF found = {}
       THEN /\ res' = Reply([NoRes EXCEPT !.op = "reset", !.tok = raw,
                                          !.out = "InvalidOrExpired"])
            /\ UNCHANGED procs
       ELSE /\ \E r \in found :
                 procs' = [procs EXCEPT ![p] =
                     [Idle EXCEPT !.pc = "reset_commit", !.op = "reset",
                                  !.tok = raw, !.pw = pw, !.rows = {r}]]
            /\ Silent
    /\ UNCHANGED <<now, ticks, users, pending, resetTokens, nextId, nextTok,
                   redeemed, credApplied, cfgAccess, environment, kept, jar>>

\* ResetWrites that marks the token used and leaves the credential alone.
ResetWrites_TokenOnly(r, pw) ==
    [u |-> users,
     t |-> {IF x.id = r.id THEN [x EXCEPT !.is_used = TRUE] ELSE x :
            x \in resetTokens}]

\* auth.py 617-620: the two row updates of one flush,
\* users.hashed_password and password_reset_tokens.is_used, by primary key.
ResetWrites(r, pw) ==
    [u |-> {IF x.id = r.user_id
            THEN [x EXCEPT !.hashed_password = get_password_hash(pw)]
            ELSE x : x \in users},
     t |-> {IF x.id = r.id THEN [x EXCEPT !.is_used = TRUE] ELSE x :
            x \in resetTokens}]

\* auth.py 614-629: set the new hash and is_used on the loaded objects and
\* commit().  The flush issues UPDATE ... WHERE id = <pk> for both rows in
\* one transaction; an UPDATE that matches no row (the row was deleted by a
\* concurrent request) raises StaleDataError and the transaction is rolled
\* back when the session closes.  Any other database failure does the same.
ResetCommit(p) ==
    /\ procs[p].pc = "reset_commit"
    /\ \E r \in procs[p].rows :
        \/ /\ \E x \in resetTokens : x.id = r.id
           /\ \E x \in users : x.id = r.user_id
           /\ users' = ResetWrites(r, procs[p].pw).u
           /\ resetTokens' = ResetWrites(r, procs[p].pw).t
           /\ redeemed' = [redeemed EXCEPT ![procs[p].tok] = @ + 1]
           /\ credApplied' = credApplied \cup
                 {r.id : x \in {y \in users' :
                     /\ y.id = r.user_id
                     /\ y.hashed_password = get_password_hash(procs[p].pw)}}
           /\ res' = Reply([NoRes EXCEPT !.op = "reset", !.out = "ok",
                                         !.tok = procs[p].tok])
        \/ /\ res' = Reply([NoRes EXCEPT !.op = "reset", !.out = "fault",
                                         !.tok = procs[p].tok])
           /\ UNCHANGED <<users, resetTokens, redeemed, credApplied>>
    /\ procs' = [procs EXCEPT ![p] = Idle]
    /\ UNCHANGED <<now, ticks, pending, nextId, nextTok, cfgAccess,
                   environment, kept, jar>>

\* ------------------------------------------------- specification: recovery
User1 == [id |-> 1, email |-> "a@x.com", name |-> "Ann",
          hashed_password |-> get_password_hash("secret1"),
          is_active |-> TRUE, is_admin |-> FALSE, is_verified |-> TRUE,
          google_id |-> ""]

User2 == [id |-> 2, email |-> "b@x.com", name |-> "Bob",
          hashed_password |-> get_password_hash("secret2"),
          is_active |-> TRUE, is_admin |-> TRUE, is_verified |-> TRUE,
          google_id |-> ""]

InitRecovery ==
    /\ now = 0
    /\ ticks = 0
    /\ users = {User1}
    /\ pending = {}
    /\ resetTokens = {}
    /\ nextId = 2
    /\ nextTok = 1
    /\ procs = [p \in Procs |-> Idle]
    /\ redeemed = [t \in RawTokens |-> 0]
    /\ credApplied = {}
    /\ cfgAccess = ACCESS_TOKEN_EXPIRE_MINUTES
    /\ environment = "development"
    /\ kept = {}
    /\ jar = EmptyJar
    /\ res = NoRes

NextRecovery ==
    \/ Tick
    \/ \E p \in Procs, e \in Emails : RequestStart(p, e)
    \/ \E p \in Procs : RequestDelete(p)
    \/ \E p \in Procs : RequestCommit(p)
    \/ \E p \in Procs, raw \in RawTokens, pw \in NewPasswords :
          ResetSelect(p, raw, pw)
    \/ \E p \in Procs : ResetCommit(p)

SpecRecovery == InitRecovery /\ [][NextRecovery]_vars

\* --------------------------------------------------------------- register
\* RegisterStart without the search of the users table.
RegisterStart_NoUserCheck(p, email, name, pw, pin) ==
    /\ procs[p].pc = "idle"
    /\ nextId <= MaxRows + 1
    /\ procs' = [procs EXCEPT ![p] =
          [Idle EXCEPT !.pc = "reg_pending", !.op = "register",
                       !.email = email, !.name = name, !.pw = pw,
                       !.code = pin, !.exp = get_pin_expiration(now)]]
    /\ Silent
    /\ UNCHANGED <<now, ticks, users, pending, resetTokens, nextId, nextTok,
                   redeemed, credApplied, cfgAccess, environment, kept, jar>>

\* auth.py 61-62 and crud/user.py 216-221: PIN and expiry are generated,
\* then the users table is searched for the email.
RegisterStart(p, email, name, pw, pin) ==
    /\ procs[p].pc = "idle"
    /\ IF \E u \in users : u.email = email
       THEN /\ res' = Reply([NoRes EXCEPT !.op = "register", !.email = email,
                                          !.out = "AlreadyRegistered",
                                          !.detail = "Email already registered"])
            /\ UNCHANGED procs
       ELSE /\ nextId <= MaxRows
            /\ procs' = [procs EXCEPT ![p] =
                 [Idle EXCEPT !.pc = "reg_pending", !.op = "register",
                              !.email = email, !.name = name, !.pw = pw,
                              !.code = pin, !.exp = get_pin_expiration(now)]]
            /\ Silent
    /\ UNCHANGED <<now, ticks, users, pending, resetTokens, nextId, nextTok,
                   redeemed, credApplied, cfgAccess, environment, kept, jar>>

\* crud/user.py 224-225: look for a pending registration of the email.
RegisterFindPending(p) ==
    /\ procs[p].pc = "reg_pending"
    /\ LET found == {r \in pending : r.email = procs[p].email} IN
       procs' = [procs EXCEPT ![p].rows = found,
                              ![p].pc = IF found = {} THEN "reg_insert"
                                        ELSE "reg_delete"]
    /\ Silent
    /\ UNCHANGED <<now, ticks, users, pending, resetTokens, nextId, nextTok,
                   redeemed, credApplied, cfgAccess, environment, kept, jar>>

\* crud/user.py 226-227: delete the row found and commit.  A DELETE by
\* primary key that matches no row only warns.
RegisterDelete(p) ==
    /\ procs[p].pc = "reg_delete"
    /\ pending' = {r \in pending : r.id \notin {x.id : x \in procs[p].rows}}
    /\ procs' = [procs EXCEPT ![p].pc = "reg_insert", ![p].rows = {}]
    /\ Silent
    /\ UNCHANGED <<now, ticks, users, resetTokens, nextId, nextTok,
                   redeemed, credApplied, cfgAccess, environment, kept, jar>>

\* crud/user.py 230-242 and auth.py 65: insert the pending row and commit;
\* pending_users.email is unique, so the INSERT raises IntegrityError when
\* another row for the email was committed meanwhile. After the commit the
\* handler calls send_verification_email and waits for it.
RegisterInsert(p) ==
    /\ procs[p].pc = "reg_insert"
    /\ IF \E r \in pending : r.email = procs[p].email
       THEN /\ res' = Reply([NoRes EXCEPT !.op = "register", !.out = "fault",
                                          !.email = procs[p].email])
            /\ procs' = [procs EXCEPT ![p] = Idle]
            /\ UNCHANGED <<pending, nextId>>
       ELSE /\ pending' = pending \cup
                  {[id |-> nextId, email |-> procs[p].email,
                    name |-> procs[p].name,
                    hashed_password |-> get_password_hash(procs[p].pw),
                    pin_code |-> procs[p].code,
                    pin_expires |-> procs[p].exp]}
            /\ nextId' = nextId + 1
            /\ procs' = [procs EXCEPT ![p].pc = "reg_send"]
            /\ Silent
    /\ UNCHANGED <<now, ticks, users, resetTokens, nextTok,
                   redeemed, credApplied, cfgAccess, environment, kept, jar>>

\* auth.py 71-93 and email_service.py 56-107: the awaited call of
\* send_verification_email returns (True, or False after an exception of
\* the mail API) and only then the handler answers, success in both cases.
\* The call to the mail API carries no timeout.
RegisterRespond(p, sent) ==
    /\ procs[p].pc = "reg_send"
    /\ res' = Reply([NoRes EXCEPT !.op = "register", !.out = "ok",
                                  !.email = procs[p].email,
                                  !.code = procs[p].code, !.sent = sent])
    /\ procs' = [procs EXCEPT ![p] = Idle]
    /\ UNCHANGED <<now, ticks, users, pending, resetTokens, nextId, nextTok,
                   redeemed, credApplied, cfgAccess, environment, kept, jar>>

\* -------------------------------------------------------------- resend_pin
\* auth.py 137-149: load the pending row, 404 if there is none; generate a
\* new PIN and expiry.
ResendSelect(p, email, pin) ==
    /\ procs[p].pc = "idle"
    /\ LET found == {r \in pending : r.email = email} IN
       IF found = {}
       THEN /\ res' = Reply([NoRes EXCEPT !.op = "resend", !.email = email,
                                          !.out = "NotFound"])
            /\ UNCHANGED procs
       ELSE /\ procs' = [procs EXCEPT ![p] =
                 [Idle EXCEPT !.pc = "resend_commit", !.op = "resend",
                              !.email = email, !.rows = found, !.code = pin,
                              !.exp = get_pin_expiration(now)]]
            /\ Silent
    /\ UNCHANGED <<now, ticks, users, pending, resetTokens, nextId, nextTok,
                   redeemed, credApplied, cfgAccess, environment, kept, jar>>

\* auth.py 152-168: UPDATE the row by primary key and commit (an UPDATE
\* that matches no row raises StaleDataError); then send the mail and
\* raise HTTP 500 if it did not go out.
ResendCommit(p) ==
    /\ procs[p].pc = "resend_commit"
    /\ LET ids == {x.id : x \in procs[p].rows}
           mine == [NoRes EXCEPT !.op = "resend", !.email = procs[p].email,
                                 !.code = procs[p].code] IN
       IF \E r \in pending : r.id \in ids
       THEN /\ pending' = {IF r.id \in ids
                           THEN [r EXCEPT !.pin_code = procs[p].code,
                                          !.pin_expires = procs[p].exp]
                           ELSE r : r \in pending}
            /\ \E sent \in BOOLEAN :
                  res' = Reply([mine EXCEPT !.sent = sent,
                                   !.out = IF sent THEN "ok"
                                           ELSE "DeliveryFailed"])
       ELSE /\ res' = Reply([mine EXCEPT !.out = "fault"])
            /\ UNCHANGED pending
    /\ procs' = [procs EXCEPT ![p] = Idle]
    /\ UNCHANGED <<now, ticks, users, resetTokens, nextId, nextTok,
                   redeemed, credApplied, cfgAccess, environment, kept, jar>>

\* -------------------------------------------------------------- verify_pin
\* VerifySelect that drops the pending row when the code is refused.
VerifySelect_ConsumesCode(p, email, code) ==
    /\ procs[p].pc = "idle"
    /\ LET found == {r \in pending : r.email = email}
           mine == [NoRes EXCEPT !.op = "verify", !.email = email,
                                 !.code = code] IN
       IF found = {}
       THEN /\ res' = Reply([mine EXCEPT !.out = "NotFound"])
            /\ UNCHANGED <<procs, pending>>
       ELSE \E r \in found :
            IF is_pin_valid(r.pin_code, r.pin_expires, code, now)
            THEN /\ procs' = [procs EXCEPT ![p] =
                     [Idle EXCEPT !.pc = "verify_commit", !.op = "verify",
                                  !.email = email, !.code = code,
                                  !.rows = {r}]]
                 /\ Silent
                 /\ UNCHANGED pending
            ELSE /\ res' = Reply([mine EXCEPT !.out = "InvalidOrExpired"])
                 /\ pending' = pending \ {r}
                 /\ UNCHANGED procs
    /\ UNCHANGED <<now, ticks, users, resetTokens, nextId, nextTok,
                   redeemed, credApplied, cfgAccess, environment, kept, jar>>

\* auth.py 100-112: load the pending row (404 if none) and test the PIN
\* (400 if it differs or is past its expiry).
VerifySelect(p, email, code) ==
    /\ procs[p].pc = "idle"
    /\ LET found == {r \in pending : r.email = email}
           mine == [NoRes EXCEPT !.op = "verify", !.email = email,
                                 !.code = code] IN
       IF found = {}
       THEN /\ res' = Reply([mine EXCEPT !.out = "NotFound"])
            /\ UNCHANGED procs
       ELSE \E r \in found :
            IF is_pin_valid(r.pin_code, r.pin_expires, code, now)
            THEN /\ procs' = [procs EXCEPT ![p] =
                     [Idle EXCEPT !.pc = "verify_commit", !.op = "verify",
                                  !.email = email, !.code = code,
                                  !.rows = {r}]]
                 /\ Silent
            ELSE /\ res' = Reply([mine EXCEPT !.out = "InvalidOrExpired"])
                 /\ UNCHANGED procs
    /\ UNCHANGED <<now, ticks, users, pending, resetTokens, nextId, nextTok,
                   redeemed, credApplied, cfgAccess, environment, kept, jar>>

\* create_user_from_pending that copies no verified flag.
create_user_from_pending_Unverified(r, id) ==
    [id |-> id, email |-> r.email, name |-> r.name,
     hashed_password |-> r.hashed_password,
     is_active |-> TRUE, is_admin |-> FALSE, is_verified |-> FALSE,
     google_id |-> ""]

\* crud/user.py 244-267: the user row made from the pending row
create_user_from_pending(r, id) ==
    [id |-> id, email |-> r.email, name |-> r.name,
     hashed_password |-> r.hashed_password,
     is_active |-> TRUE, is_admin |-> FALSE, is_verified |-> TRUE,
     google_id |-> ""]

\* crud/user.py 256-265 and auth.py 117-130: one flush INSERTs the user
\* (users.email is unique: IntegrityError if the email is taken) and
\* DELETEs the pending row by primary key (no row matched: a warning only);
\* commit; tokens for the new user are minted and set as cookies.
VerifyCommit(p) ==
    /\ procs[p].pc = "verify_commit"
    /\ LET mine == [NoRes EXCEPT !.op = "verify", !.email = procs[p].email,
                                 !.code = procs[p].code] IN
       IF \E u \in users : u.email = procs[p].email
       THEN /\ res' = Reply([mine EXCEPT !.out = "fault"])
            /\ UNCHANGED <<users, pending, nextId, jar>>
       ELSE /\ \E r \in procs[p].rows :
                 /\ users' = users \cup {create_user_from_pending(r, nextId)}
                 /\ pending' = {x \in pending : x.id # r.id}
                 /\ jar' = IssueSession(create_user_from_pending(r, nextId),
                                        now, cfgAccess)
            /\ nextId' = nextId + 1
            /\ res' = Reply([mine EXCEPT !.out = "ok", !.uid = nextId,
                                 !.setCookies = TRUE,
                                 !.cookies = BindCookies(jar', cfgAccess)])
    /\ procs' = [procs EXCEPT ![p] = Idle]
    /\ UNCHANGED <<now, ticks, resetTokens, nextTok,
                   redeemed, credApplied, cfgAccess, environment, kept>>

\* ------------------------------------------------------ session resolver
Unauthenticated ==
    [out |-> "Unauthenticated", uid |-> 0, set |-> FALSE,
     cookies |-> EmptyJar]

\* security.py 196-226 and 256-286 (the same code twice): authenticate by
\* the refresh cookie r, mint a new pair and set both cookies.
RefreshPath(r, U, t, cfg) ==
    IF r = {} THEN Unauthenticated
    ELSE LET tok == CHOOSE x \in r : TRUE
             user_id == verify_refresh_token(tok, t)
             found == {u \in U : u.id = user_id}
         IN IF user_id = 0 THEN Unauthenticated
            ELSE IF found = {} \/ \E u \in found : ~u.is_active
                 THEN Unauthenticated
                 ELSE LET user == CHOOSE u \in found : TRUE IN
                      [out |-> "ok", uid |-> user.id, set |-> TRUE,
                       cookies |-> IssueSession(user, t, cfg)]

\* The access-token branch of ResolveSession without the is_active test.
AccessPath_NoActiveCheck(tok, U) ==
    LET found == {u \in U : u.id = tok.sub} IN
    IF tok.type # "access" THEN Unauthenticated
    ELSE IF found = {} THEN Unauthenticated
         ELSE [out |-> "ok", uid |-> tok.sub, set |-> FALSE,
               cookies |-> EmptyJar]

\* security.py 231-250: the access token decoded; the HTTPException raised
\* here is not a JWTError, so there is no fall-back to the refresh cookie.
AccessPath(tok, U) ==
    LET found == {u \in U : u.id = tok.sub} IN
    IF tok.type # "access" THEN Unauthenticated
    ELSE IF found = {} \/ \E u \in found : ~u.is_active
         THEN Unauthenticated
         ELSE [out |-> "ok", uid |-> tok.sub, set |-> FALSE,
               cookies |-> EmptyJar]

\* security.py 175-286, get_current_user_with_refresh, on the cookies a
\* (access_token) and r (refresh_token), each a set of at most one token.
ResolveSession(a, r, U, t, cfg) ==
    IF a = {} THEN RefreshPath(r, U, t, cfg)
    ELSE LET tok == CHOOSE x \in a : TRUE IN
         IF JwtDecodes(tok, t) THEN AccessPath(tok, U)
         ELSE RefreshPath(r, U, t, cfg)

\* What a client can put into a cookie or header: nothing, a token it
\* holds (in either place), or such a token with a broken signature.
Forge(tok) == [tok EXCEPT !.sig = "bad"]
Held == jar.access \cup jar.refresh \cup kept
CookieChoices == {{}} \cup {{t} : t \in Held} \cup {{Forge(t)} : t \in Held}

Resolve(a, r) ==
    /\ LET o == ResolveSession(a, r, users, now, cfgAccess) IN
       /\ res' = Reply([NoRes EXCEPT !.op = "resolve", !.out = o.out,
                           !.detail = IF o.out = "ok" THEN ""
                                      ELSE "Could not validate credentials",
                           !.uid = o.uid, !.reqAccess = a, !.reqRefresh = r,
                           !.setCookies = o.set,
                           !.cookies = BindCookies(o.cookies, cfgAccess)])
       /\ jar' = IF o.set THEN o.cookies ELSE jar
    /\ UNCHANGED <<now, ticks, users, pending, resetTokens, nextId, nextTok,
                   procs, redeemed, credApplied, cfgAccess, environment, kept>>

\* security.py 68-93, get_current_user_from_header: the bearer token is
\* decoded and its subject looked up; the type claim is not read.
HeaderAuth(tok) ==
    /\ LET found == {u \in users : u.id = tok.sub}
           ok == /\ JwtDecodes(tok, now)
                 /\ found # {}
                 /\ \A u \in found : u.is_active
           mine == [NoRes EXCEPT !.op = "header", !.reqAccess = {tok}] IN
       res' = Reply(IF ok THEN [mine EXCEPT !.out = "ok", !.uid = tok.sub]
                    ELSE [mine EXCEPT !.out = "Unauthenticated",
                             !.detail = "Could not validate credentials"])
    /\ UNCHANGED <<now, ticks, users, pending, resetTokens, nextId, nextTok,
                   procs, redeemed, credApplied, cfgAccess, environment, kept,
                   jar>>

\* crud/user.py 66-95: the user, or the error type
authenticate_user(U, email, password) ==
    LET found == {u \in U : u.email = email} IN
    IF found = {} THEN [user |-> {}, error |-> "user_not_found"]
    ELSE LET user == CHOOSE u \in found : TRUE IN
         IF user.hashed_password = <<>>
         THEN [user |-> {}, error |-> IF user.google_id # ""
                                      THEN "google_user"
                                      ELSE "user_not_found"]
         ELSE IF ~verify_password(password, user.hashed_password)
              THEN [user |-> {}, error |-> "incorrect_password"]
              ELSE [user |-> {user}, error |-> "success"]

\* auth.py 172-223, login
Login(email, password) ==
    /\ LET a == authenticate_user(users, email, password)
           mine == [NoRes EXCEPT !.op = "login", !.email = email] IN
       IF a.user = {}
       THEN /\ res' = Reply([mine EXCEPT !.out = a.error])
            /\ UNCHANGED jar
       ELSE \E user \in a.user :
            /\ jar' = IssueSession(user, now, cfgAccess)
            /\ res' = Reply([mine EXCEPT !.out = "ok", !.uid = user.id,
                                 !.setCookies = TRUE,
                                 !.cookies = BindCookies(jar', cfgAccess)])
    /\ UNCHANGED <<now, ticks, users, pending, resetTokens, nextId, nextTok,
                   procs, redeemed, credApplied, cfgAccess, environment, kept>>

\* RefreshOutcome that tells an expired token from an invalid one.
RefreshOutcome_TellsExpired(r, U, t, cfg) ==
    LET fail == [out |-> "Unauthenticated", detail |-> "", uid |-> 0,
                 set |-> FALSE, cookies |-> EmptyJar]
        tok == CHOOSE x \in r : TRUE
        user_id == verify_refresh_token(tok, t)
        found == {u \in U : u.id = user_id} IN
    IF r = {} THEN [fail EXCEPT !.detail = "No refresh token provided"]
    ELSE IF user_id = 0
    THEN [fail EXCEPT !.detail = IF tok.sig = "ok" /\ tok.exp < t
                                 THEN "Refresh token expired"
                                 ELSE "Invalid refresh token"]
    ELSE IF found = {} \/ \E u \in found : ~u.is_active
    THEN [fail EXCEPT !.detail = "User not found or inactive"]
    ELSE LET user == CHOOSE u \in found : TRUE IN
         [out |-> "ok", detail |-> "", uid |-> user.id, set |-> TRUE,
          cookies |-> IssueSession(user, t, cfg)]

\* RefreshOutcome that accepts only the refresh token bound last, as if
\* issued tokens were recorded and replaced on use or dropped on logout.
RefreshOutcome_OnlyBound(r, U, t, cfg) ==
    LET fail == [out |-> "Unauthenticated", detail |-> "", uid |-> 0,
                 set |-> FALSE, cookies |-> EmptyJar]
        tok == CHOOSE x \in r : TRUE
        user_id == verify_refresh_token(tok, t)
        found == {u \in U : u.id = user_id} IN
    IF r = {} THEN [fail EXCEPT !.detail = "No refresh token provided"]
    ELSE IF user_id = 0 \/ r # jar.refresh
    THEN [fail EXCEPT !.detail = "Invalid refresh token"]
    ELSE IF found = {} \/ \E u \in found : ~u.is_active
    THEN [fail EXCEPT !.detail = "User not found or inactive"]
    ELSE LET user == CHOOSE u \in found : TRUE IN
         [out |-> "ok", detail |-> "", uid |-> user.id, set |-> TRUE,
          cookies |-> IssueSession(user, t, cfg)]

\* auth.py 283-337: what the refresh endpoint answers to the refresh
\* cookie r (a set of at most one token); every failure is a 401.
RefreshOutcome(r, U, t, cfg) ==
    LET fail == [out |-> "Unauthenticated", detail |-> "", uid |-> 0,
                 set |-> FALSE, cookies |-> EmptyJar]
        tok == CHOOSE x \in r : TRUE
        user_id == verify_refresh_token(tok, t)
        found == {u \in U : u.id = user_id} IN
    IF r = {} THEN [fail EXCEPT !.detail = "No refresh token provided"]
    ELSE IF user_id = 0
    THEN [fail EXCEPT !.detail = "Invalid refresh token"]
    ELSE IF found = {} \/ \E u \in found : ~u.is_active
    THEN [fail EXCEPT !.detail = "User not found or inactive"]
    ELSE LET user == CHOOSE u \in found : TRUE IN
         [out |-> "ok", detail |-> "", uid |-> user.id, set |-> TRUE,
          cookies |-> IssueSession(user, t, cfg)]

\* auth.py 283-337, the refresh endpoint, on the refresh cookie r
RefreshEndpoint(r) ==
    /\ LET o == RefreshOutcome(r, users, now, cfgAccess) IN
       /\ res' = Reply([NoRes EXCEPT !.op = "refresh", !.reqRefresh = r,
                           !.out = o.out, !.detail = o.detail,
                           !.uid = o.uid, !.setCookies = o.set,
                           !.cookies = BindCookies(o.cookies, cfgAccess)])
       /\ jar' = IF o.set THEN o.cookies ELSE jar
    /\ UNCHANGED <<now, ticks, users, pending, resetTokens, nextId, nextTok,
                   procs, redeemed, credApplied, cfgAccess, environment, kept>>

\* auth.py 339-346 and security.py 122-125: both cookies are deleted
Logout ==
    /\ jar' = EmptyJar
    /\ res' = Reply([NoRes EXCEPT !.op = "logout", !.out = "ok"])
    /\ UNCHANGED <<now, ticks, users, pending, resetTokens, nextId, nextTok,
                   procs, redeemed, credApplied, cfgAccess, environment, kept>>

\* crud/user.py 175-187
deactivate_user(user_id) ==
    /\ \E u \in users : u.id = user_id /\ u.is_active
    /\ users' = {IF u.id = user_id THEN [u EXCEPT !.is_active = FALSE]
                 ELSE u : u \in users}
    /\ Silent
    /\ UNCHANGED <<now, ticks, pending, resetTokens, nextId, nextTok,
                   procs, redeemed, credApplied, cfgAccess, environment, kept,
                   jar>>

\* crud/user.py 189-207
delete_user(user_id) ==
    /\ \E u \in users : u.id = user_id
    /\ users' = {u \in users : u.id # user_id}
    /\ Silent
    /\ UNCHANGED <<now, ticks, pending, resetTokens, nextId, nextTok,
                   procs, redeemed, credApplied, cfgAccess, environment, kept,
                   jar>>

\* --------------------------------------------- specification: registration
InitRegistration ==
    /\ now = 0
    /\ ticks = 0
    /\ users = {}
    /\ pending = {}
    /\ resetTokens = {}
    /\ nextId = 1
    /\ nextTok = 1
    /\ procs = [p \in Procs |-> Idle]
    /\ redeemed = [t \in RawTokens |-> 0]
    /\ credApplied = {}
    /\ cfgAccess = ACCESS_TOKEN_EXPIRE_MINUTES
    /\ environment = "development"
    /\ kept = {}
    /\ jar = EmptyJar
    /\ res = NoRes

NextRegistration ==
    \/ Tick
    \/ \E p \in Procs, e \in RegEmails, n \in RegNames, pw \in RegPasswords,
          pin \in PinCodes : RegisterStart(p, e, n, pw, pin)
    \/ \E p \in Procs : RegisterFindPending(p)
    \/ \E p \in Procs : RegisterDelete(p)
    \/ \E p \in Procs : RegisterInsert(p)
    \/ \E p \in Procs, sent \in BOOLEAN : RegisterRespond(p, sent)
    \/ \E p \in Procs, e \in RegEmails, pin \in PinCodes :
          ResendSelect(p, e, pin)
    \/ \E p \in Procs : ResendCommit(p)
    \/ \E p \in Procs, e \in RegEmails, c \in PinCodes : VerifySelect(p, e, c)
    \/ \E p \in Procs : VerifyCommit(p)
    \/ \E e \in RegEmails, pw \in RegPasswords : Login(e, pw)

SpecRegistration == InitRegistration /\ [][NextRegistration]_vars

\* The steps of the handler p that the server takes on its own: each runs
\* as soon as the database statement before it has returned.  The return of
\* send_verification_email (RegisterRespond) is not among them: it is taken
\* when the mail API answers.
HandlerStep(p) ==
    \/ RegisterFindPending(p)
    \/ RegisterDelete(p)
    \/ RegisterInsert(p)
    \/ ResendCommit(p)
    \/ VerifyCommit(p)

\* The registration flow with the event loop's scheduling: a handler whose
\* next database step is enabled takes it; nothing is assumed of the mail
\* API.
SpecRegistrationFair ==
    SpecRegistration /\ \A p \in Procs : WF_vars(HandlerStep(p))

\* ---------------------------------------- specification: federated login
\* what verify_google_token returns: nothing for a token that does not
\* verify, else the Google account's id, email and name
GoogleAccounts ==
    {[google_id |-> "g1", email |-> "a@x.com", name |-> "Ann G"]}

\* crud/user.py 97-155, authenticate_google_user on the users table U: the
\* row found by google_id (name refreshed), else the row found by email
\* (google_id linked, name refreshed), else a new row without password.
\* The result is the table and the user's id; pending_users is not read.
authenticate_google_user(U, info, id) ==
    LET byId == {u \in U : u.google_id = info.google_id}
        byEmail == {u \in U : u.email = info.email} IN
    IF byId # {}
    THEN [users |-> {IF u \in byId THEN [u EXCEPT !.name = info.name]
                     ELSE u : u \in U},
          uid |-> (CHOOSE u \in byId : TRUE).id, created |-> FALSE]
    ELSE IF byEmail # {}
    THEN [users |-> {IF u \in byEmail
                     THEN [u EXCEPT !.google_id = info.google_id,
                                    !.name = info.name]
                     ELSE u : u \in U},
          uid |-> (CHOOSE u \in byEmail : TRUE).id, created |-> FALSE]
    ELSE [users |-> U \cup
                    {[id |-> id, email |-> info.email, name |-> info.name,
                      hashed_password |-> <<>>,
                      is_active |-> TRUE, is_admin |-> FALSE,
                      is_verified |-> FALSE,
                      google_id |-> info.google_id]},
          uid |-> id, created |-> TRUE]

\* auth.py 225-279, google_login with the verified account info (a set of
\* at most one record); its database statements run here without another
\* handler's commit in between.
google_login(info) ==
    /\ IF info = {}
       THEN /\ res' = Reply([NoRes EXCEPT !.op = "google",
                                          !.out = "Unauthenticated"])
            /\ UNCHANGED <<users, nextId, jar>>
       ELSE \E i \in info :
            LET a == authenticate_google_user(users, i, nextId)
                user == CHOOSE u \in a.users : u.id = a.uid IN
            /\ a.created => nextId <= MaxRows
            /\ users' = a.users
            /\ nextId' = IF a.created THEN nextId + 1 ELSE nextId
            /\ jar' = IssueSession(user, now, cfgAccess)
            /\ res' = Reply([NoRes EXCEPT !.op = "google", !.out = "ok",
                                 !.email = i.email, !.uid = user.id,
                                 !.setCookies = TRUE,
                                 !.cookies = BindCookies(jar', cfgAccess)])
    /\ UNCHANGED <<now, ticks, pending, resetTokens, nextTok, procs,
                   redeemed, credApplied, cfgAccess, environment, kept>>

NextFederated ==
    \/ NextRegistration
    \/ \E info \in {{}} \cup {{g} : g \in GoogleAccounts} : google_login(info)

SpecFederated == InitRegistration /\ [][NextFederated]_vars

\* ------------------------------- specification: registration then recovery
\* One registration handler and one recovery handler in flight on one
\* store: an email registers, confirms, asks for a reset and redeems it.
NextStore ==
    \/ Tick
    \/ \E e \in RegEmails, n \in RegNames, pw \in RegPasswords,
          pin \in PinCodes : RegisterStart("h1", e, n, pw, pin)
    \/ RegisterFindPending("h1")
    \/ RegisterDelete("h1")
    \/ RegisterInsert("h1")
    \/ \E sent \in BOOLEAN : RegisterRespond("h1", sent)
    \/ \E e \in RegEmails, c \in PinCodes : VerifySelect("h1", e, c)
    \/ VerifyCommit("h1")
    \/ \E e \in Emails : RequestStart("h2", e)
    \/ RequestDelete("h2")
    \/ RequestCommit("h2")
    \/ \E raw \in RawTokens, pw \in NewPasswords : ResetSelect("h2", raw, pw)
    \/ ResetCommit("h2")

SpecStore == InitRegistration /\ [][NextStore]_vars

\* ------------------------------------------------- specification: session
\* values of the environment variable ACCESS_TOKEN_EXPIRE_MINUTES
AccessMinutesChoices ==
    {-5, 0, ACCESS_TOKEN_EXPIRE_MINUTES, REFRESH_TOKEN_EXPIRE_DAYS * 24 * 60}
\* values of the environment variable ENVIRONMENT
Environments == {"development", "staging", "Production"}
LoginEmails == {"a@x.com", "b@x.com", "ghost@x.com"}
LoginPasswords == {"secret1", "secret2"}

InitSession ==
    /\ now = 0
    /\ ticks = 0
    /\ users = {User1, User2}
    /\ pending = {}
    /\ resetTokens = {}
    /\ nextId = 3
    /\ nextTok = 1
    /\ procs = [p \in Procs |-> Idle]
    /\ redeemed = [t \in RawTokens |-> 0]
    /\ credApplied = {}
    /\ cfgAccess \in AccessMinutesChoices
    /\ environment \in Environments
    /\ kept = {}
    /\ jar = EmptyJar
    /\ res = NoRes

NextSession ==
    \/ TickSession
    \/ \E e \in LoginEmails, pw \in LoginPasswords : Login(e, pw)
    \/ \E a \in CookieChoices, r \in CookieChoices : Resolve(a, r)
    \/ \E t \in Held \cup {Forge(x) : x \in Held} : HeaderAuth(t)
    \/ \E r \in CookieChoices : RefreshEndpoint(r)
    \/ Logout
    \/ \E u \in {1, 2} : deactivate_user(u)
    \/ \E u \in {1, 2} : delete_user(u)

SpecSession == InitSession /\ [][NextSession]_vars

\* ------------------------------------------ specification: long-lived tokens
\* security.py 109-120: the refresh cookie is a bearer value; a client (a
\* second tab, a script) may keep a copy of it beyond logout or re-issue.
KeepRefreshToken ==
    /\ jar.refresh # {}
    /\ kept # jar.refresh
    /\ kept' = jar.refresh
    /\ Silent
    /\ UNCHANGED <<now, ticks, users, pending, resetTokens, nextId, nextTok,
                   procs, redeemed, credApplied, cfgAccess, environment, jar>>

\* models/user.py 26: the column users.is_admin set to false for one row
\* (no endpoint does it; the flag is changed in the database)
clear_admin(user_id) ==
    /\ \E u \in users : u.id = user_id /\ u.is_admin
    /\ users' = {IF u.id = user_id THEN [u EXCEPT !.is_admin = FALSE]
                 ELSE u : u \in users}
    /\ Silent
    /\ UNCHANGED <<now, ticks, pending, resetTokens, nextId, nextTok, procs,
                   redeemed, credApplied, cfgAccess, environment, kept, jar>>

\* require_admin deciding on the flag carried by the access token.
AdminOutcome_TokenFlag(a, r, U, t, cfg) ==
    LET o == ResolveSession(a, r, U, t, cfg)
        flag == IF o.set THEN \E u \in U : u.id = o.uid /\ u.is_admin
                ELSE \E tok \in a : tok.is_admin IN
    IF o.out # "ok" THEN [o EXCEPT !.out = "Unauthenticated"]
    ELSE IF ~flag
    THEN [out |-> "Forbidden", uid |-> o.uid, set |-> FALSE,
          cookies |-> EmptyJar]
    ELSE o

\* admin.py 18-22, require_admin on top of get_current_user: the user row
\* just read from the database decides; a 403 replaces the response, so
\* cookies the resolver had set are not sent.
AdminOutcome(a, r, U, t, cfg) ==
    LET o == ResolveSession(a, r, U, t, cfg) IN
    IF o.out # "ok" THEN [o EXCEPT !.out = "Unauthenticated"]
    ELSE IF ~\E u \in U : u.id = o.uid /\ u.is_admin
    THEN [out |-> "Forbidden", uid |-> o.uid, set |-> FALSE,
          cookies |-> EmptyJar]
    ELSE o

\* admin.py 24-30: an admin-only request with the cookies a and r
AdminRequest(a, r) ==
    /\ LET o == AdminOutcome(a, r, users, now, cfgAccess) IN
       /\ res' = Reply([NoRes EXCEPT !.op = "admin", !.out = o.out,
                           !.detail = IF o.out = "ok" THEN ""
                                      ELSE IF o.out = "Forbidden"
                                      THEN "Not authorized"
                                      ELSE "Could not validate credentials",
                           !.uid = o.uid, !.reqAccess = a, !.reqRefresh = r,
                           !.setCookies = o.set,
                           !.cookies = BindCookies(o.cookies, cfgAccess)])
       /\ jar' = IF o.set THEN o.cookies ELSE jar
    /\ UNCHANGED <<now, ticks, users, pending, resetTokens, nextId, nextTok,
                   procs, redeemed, credApplied, cfgAccess, environment, kept>>

InitTokens ==
    /\ now = 0
    /\ ticks = 0
    /\ users = {User2}
    /\ pending = {}
    /\ resetTokens = {}
    /\ nextId = 3
    /\ nextTok = 1
    /\ procs = [p \in Procs |-> Idle]
    /\ redeemed = [t \in RawTokens |-> 0]
    /\ credApplied = {}
    /\ cfgAccess = ACCESS_TOKEN_EXPIRE_MINUTES
    /\ environment = "development"
    /\ kept = {}
    /\ jar = EmptyJar
    /\ res = NoRes

NextTokens ==
    \/ TickSession
    \/ \E e \in LoginEmails, pw \in LoginPasswords : Login(e, pw)
    \/ KeepRefreshToken
    \/ \E a \in CookieChoices, r \in CookieChoices : Resolve(a, r)
    \/ \E a \in CookieChoices, r \in CookieChoices : AdminRequest(a, r)
    \/ \E r \in CookieChoices : RefreshEndpoint(r)
    \/ Logout
    \/ deactivate_user(2)
    \/ clear_admin(2)

SpecTokens == InitTokens /\ [][NextTokens]_vars

\* ------------------------------------------------------ claims: recovery
\* C1 (as claimed): of the reset_password requests that carry one raw token,
\* whatever the interleaving of their SELECTs and commits, at most one
\* reports success and writes the credential hash.
C1_OnlyOneRedeemSucceeds == \A t \in RawTokens : redeemed[t] <= 1

\* The raw token has been redeemed, or every row stored for it is used or
\* past its expiry.
Spent(raw) ==
    \/ redeemed[raw] > 0
    \/ /\ \E r \in resetTokens : r.token = Sha256(raw)
       /\ \A r \in resetTokens :
             r.token = Sha256(raw) => (r.is_used \/ r.expires_at <= now)

\* C2: a reset_password that presents a raw token after a successful
\* redemption of that token, or after the token's expiry, never reaches
\* its commit and is answered InvalidOrExpired; so redemptions that follow
\* one another succeed at most once.
C2_SpentTokenAuthorizesNothing ==
    [][/\ \A p \in Procs :
             (procs[p].pc = "idle" /\ procs'[p].pc = "reset_commit")
                 => ~Spent(procs'[p].tok)
       /\ (res'.op = "reset" /\ procs' = procs /\ Spent(res'.tok))
             => res'.out = "InvalidOrExpired"]_vars

\* C2 witness: a redemption is refused for a token that was redeemed once,
\* is marked used and has not expired.
C2_Witness ==
    /\ res.op = "reset"
    /\ res.out = "InvalidOrExpired"
    /\ redeemed[res.tok] = 1
    /\ \A p \in Procs : procs[p].pc = "idle"
    /\ \E r \in resetTokens :
          /\ r.token = Sha256(res.tok)
          /\ r.is_used
          /\ r.expires_at > now

\* C3: in every committed state of the store a token row is marked used
\* exactly if the credential change it authorized has been written, also
\* after a reset_password whose commit failed.
C3_UsedIffCredentialApplied ==
    \A r \in resetTokens : r.is_used <=> r.id \in credApplied

\* C3 witness: a reset_password fails at its commit while the store holds a
\* token that is used, with the hash it authorized written.
C3_Witness ==
    /\ res.op = "reset"
    /\ res.out = "fault"
    /\ \E r \in resetTokens :
          /\ r.is_used
          /\ r.id \in credApplied
          /\ \E u \in users : /\ u.id = r.user_id
                              /\ u.hashed_password # User1.hashed_password

\* ------------------------------------------------------- claims: session
Presented == res.reqAccess \cup res.reqRefresh

\* C4: a successful resolution returns an identity that is in the store
\* and active at the lookup and that is the subject of a presented token
\* which decodes; so a token of a missing or inactive identity is rejected
\* however valid it is.
C4_ResolvedIdentityIsActive ==
    (res.op = "resolve")
        => /\ res.out \in {"ok", "Unauthenticated"}
           /\ res.out = "ok" =>
                 \E u \in users :
                    /\ u.id = res.uid
                    /\ u.is_active
                    /\ \E t \in Presented : t.sub = u.id /\ JwtDecodes(t, now)

\* C4 witness: a correctly signed, unexpired access token of a deactivated
\* identity is rejected.
C4_Witness ==
    /\ res.op = "resolve"
    /\ res.out = "Unauthenticated"
    /\ \E t \in res.reqAccess, u \in users :
          /\ JwtDecodes(t, now)
          /\ t.type = "access"
          /\ u.id = t.sub
          /\ ~u.is_active

ValidRefreshOfActive(r, U, t) ==
    \E tok \in r, u \in U :
        /\ tok.sig = "ok"
        /\ tok.exp >= t
        /\ tok.type = "refresh"
        /\ u.id = tok.sub
        /\ u.is_active

\* C5: with an expired access cookie the refresh cookie alone decides: a
\* valid refresh token of an active identity resolves to that identity and
\* both cookies are replaced by a pair minted now; otherwise the answer is
\* Unauthenticated and no cookie is set.
C5_ExpiredAccessNeedsRefresh ==
    [][(res'.op = "resolve" /\ \E a \in res'.reqAccess : a.exp < now)
        => IF ValidRefreshOfActive(res'.reqRefresh, users, now)
           THEN /\ res'.out = "ok"
                /\ res'.setCookies
                /\ \E rt \in res'.reqRefresh : rt.sub = res'.uid
                /\ \E at \in jar'.access :
                      /\ jar'.access = {at}
                      /\ at.sub = res'.uid /\ at.type = "access"
                      /\ at.sig = "ok" /\ at.exp - now \in
                            {cfgAccess, DEFAULT_ACCESS_MINUTES}
                /\ \E rt \in jar'.refresh :
                      /\ jar'.refresh = {rt}
                      /\ rt.sub = res'.uid /\ rt.type = "refresh"
                      /\ rt.sig = "ok"
                      /\ rt.exp = now + REFRESH_TOKEN_EXPIRE_DAYS * 24 * 60
           ELSE /\ res'.out = "Unauthenticated"
                /\ ~res'.setCookies
                /\ jar' = jar]_vars

\* C5 witness: an expired, correctly signed access token with a valid
\* refresh token: resolved, cookies rewritten.
C5_Witness ==
    /\ res.op = "resolve"
    /\ res.out = "ok"
    /\ res.setCookies
    /\ \E a \in res.reqAccess : a.exp < now /\ a.sig = "ok"
    /\ \E a \in jar.access : a.exp >= now

\* C6 (as claimed): wherever a token is verified its kind is enforced: the
\* bearer header and the access cookie authenticate only with an
\* access-kind token, the refresh cookie only with a refresh-kind token.
C6_KindEnforced ==
    /\ (res.op = "header" /\ res.out = "ok")
          => \A t \in res.reqAccess : t.type = "access"
    /\ (res.op = "resolve" /\ res.out = "ok" /\ ~res.setCookies)
          => \A t \in res.reqAccess : t.type = "access"
    /\ (res.op \in {"resolve", "refresh"} /\ res.out = "ok"
        /\ res.setCookies)
          => \A t \in res.reqRefresh : t.type = "refresh"

\* C7: right after a response that minted and bound a session for an active
\* identity (login, refresh endpoint, resolver refresh), resolving the
\* cookies just set yields that identity's id.
C7_IssueThenResolve ==
    (/\ res.op \in {"login", "refresh", "resolve"}
     /\ res.out = "ok"
     /\ res.setCookies
     /\ \E u \in users : u.id = res.uid /\ u.is_active)
        => LET o == ResolveSession(jar.access, jar.refresh, users, now,
                                   cfgAccess)
           IN o.out = "ok" /\ o.uid = res.uid

\* C7 witness: a password login of an active identity has just set both
\* cookies.
C7_Witness ==
    /\ res.op = "login"
    /\ res.out = "ok"
    /\ jar.access # {}
    /\ jar.refresh # {}
    /\ \E u \in users : u.id = res.uid /\ u.is_active

\* -------------------------------------------------- claims: registration
PendingFor(email) == {r \in pending : r.email = email}

\* C8 (as claimed): once a confirm has succeeded for an email, every confirm
\* for that email that is submitted afterwards is answered NotFound.
C8_ConfirmSucceedsOnce ==
    [][\A u \in users :
          /\ \A p \in Procs :
                ~(/\ procs[p].pc = "idle"
                  /\ procs'[p].pc = "verify_commit"
                  /\ procs'[p].email = u.email)
          /\ (res'.op = "verify" /\ procs' = procs /\ res'.email = u.email)
                => res'.out = "NotFound"]_vars

\* C9: verify_pin answers NotFound when the email has no pending row,
\* InvalidOrExpired when it has one whose code differs from the submitted
\* one or whose expiry has passed, and goes on to create the identity only
\* when the code is equal and the expiry has not passed.
C9_ConfirmDecision ==
    [][/\ (res'.op = "verify" /\ procs' = procs)
          => IF PendingFor(res'.email) = {}
             THEN res'.out = "NotFound"
             ELSE /\ res'.out = "InvalidOrExpired"
                  /\ \A r \in PendingFor(res'.email) :
                        r.pin_code # res'.code \/ now > r.pin_expires
       /\ \A p \in Procs :
             (procs[p].pc = "idle" /\ procs'[p].pc = "verify_commit")
                => \E r \in PendingFor(procs'[p].email) :
                      /\ r.pin_code = procs'[p].code
                      /\ now <= r.pin_expires
       /\ (res'.op = "verify" /\ res'.out = "ok")
             => \E p \in Procs : /\ procs[p].pc = "verify_commit"
                                 /\ procs[p].email = res'.email
                                 /\ procs[p].code = res'.code]_vars

\* C9 witness: the correct code, submitted after its expiry, is refused.
C9_Witness ==
    /\ res.op = "verify"
    /\ res.out = "InvalidOrExpired"
    /\ \E r \in PendingFor(res.email) :
          /\ r.pin_code = res.code
          /\ now > r.pin_expires

\* C10 (as claimed): no committed state of the store holds an identity and
\* a pending registration for one email.
C10_NoTornState ==
    \A u \in users, r \in pending : u.email # r.email

\* The pending row a register request in handler state q stores.
Submitted(q, r) ==
    /\ r.email = q.email
    /\ r.name = q.name
    /\ r.hashed_password = get_password_hash(q.pw)
    /\ r.pin_code = q.code
    /\ r.pin_expires = q.exp

\* C11 (as claimed): an email never has two pending rows, and every register
\* request that gets as far as storing its row, alone or concurrently with
\* another one for the email, leaves exactly its own code, name and
\* credential hash stored for that email.
C11_LatestSubmissionStored ==
    [][/\ \A e \in RegEmails : Cardinality({r \in pending' : r.email = e}) <= 1
       /\ \A p \in Procs :
             (procs[p].pc = "reg_insert" /\ procs'[p].pc # "reg_insert")
                => /\ \E r \in pending' : Submitted(procs[p], r)
                   /\ \A r \in pending' :
                         r.email = procs[p].email => Submitted(procs[p], r)]_vars

\* C12: an identity is created, and a session for it issued, only by the
\* commit of a verify_pin whose code was the stored, unexpired code of the
\* pending row when it was checked; the new identity carries that row's
\* email and credential hash.  As long as the email has no identity a
\* password login for it fails and sets no cookie.
C12_GatedByCode ==
    [][/\ \A u \in users' \ users :
             /\ res'.op = "verify" /\ res'.out = "ok" /\ res'.uid = u.id
             /\ \E p \in Procs :
                   /\ procs[p].pc = "verify_commit"
                   /\ procs'[p].pc = "idle"
                   /\ \E r \in procs[p].rows :
                         /\ r.pin_code = procs[p].code
                         /\ r.email = u.email
                         /\ r.hashed_password = u.hashed_password
       /\ \A p \in Procs :
             (procs[p].pc = "idle" /\ procs'[p].pc = "verify_commit")
                => \E r \in pending :
                      /\ procs'[p].rows = {r}
                      /\ r.pin_code = procs'[p].code
                      /\ now <= r.pin_expires
       /\ (jar' # jar)
             => /\ res'.out = "ok"
                /\ \E u \in users' :
                      /\ u.id = res'.uid
                      /\ \A t \in jar'.access \cup jar'.refresh : t.sub = u.id
       /\ (res'.op = "login" /\ ~\E u \in users : u.email = res'.email)
             => /\ res'.out # "ok"
                /\ ~res'.setCookies
                /\ jar' = jar]_vars

\* C12 witness: a password login is refused for an email whose registration
\* is pending with the hash of the password submitted.
C12_Witness ==
    /\ res.op = "login"
    /\ res.out = "user_not_found"
    /\ jar = EmptyJar
    /\ \E r \in PendingFor(res.email) :
          r.hashed_password \in {get_password_hash(pw) : pw \in RegPasswords}

\* The response r belongs to a request that stored its record and whose
\* mail was then not sent.
DeliveryFailedIn(r) ==
    /\ ~r.sent
    /\ \/ r.op = "register" /\ r.out \notin {"AlreadyRegistered", "fault"}
       \/ r.op = "resend" /\ r.out \notin {"NotFound", "fault"}
       \/ r.op = "request" /\ r.tok # 0

\* C13 (as claimed): when the mail of register, resend_pin or
\* request_password_reset is not sent, the record the request stored is
\* kept and the request is answered with success.
C13_DeliveryFailureIsSoft ==
    DeliveryFailedIn(res)
        => /\ res.out = "ok"
           /\ res.op \in {"register", "resend"}
                 => \E r \in pending : /\ r.email = res.email
                                       /\ r.pin_code = res.code
           /\ res.op = "request"
                 => \E r \in resetTokens : r.token = Sha256(res.tok)

\* The outcomes a public operation may end in: success and the five
\* defined error kinds (login reports Unauthenticated as user_not_found or
\* incorrect_password).
DefinedOutcomes ==
    {"none", "ok", "Unauthenticated", "InvalidOrExpired", "AlreadyRegistered",
     "NotFound", "DeliveryFailed", "user_not_found", "incorrect_password"}

\* C14 (as claimed): whatever the interleaving of concurrent requests, every
\* request ends in success or in one of the defined outcomes; a uniqueness
\* violation or a row deleted by a concurrent request never surfaces as an
\* unhandled fault.
C14_NoUnhandledFault == res.out \in DefinedOutcomes

\* What the caller of request_password_reset receives.
Response(r) == [out |-> r.out, detail |-> r.detail]

\* C15: every request_password_reset gets the same response, success with
\* the one fixed message, whether or not the email belongs to an identity;
\* and a request whose email belongs to none leaves the token table alone
\* and starts no work on it.
C15_EnumerationResistant ==
    [][/\ (res'.op = "request")
             => /\ Response(res') =
                      [out |-> "ok", detail |-> ResetRequestMessage]
                /\ (~\E u \in users : u.email = res'.email)
                      => /\ resetTokens' = resetTokens
                         /\ procs' = procs
       /\ \A p \in Procs :
             (procs[p].pc = "idle" /\ procs'[p].pc = "req_delete")
                => \E u \in users : u.email = procs'[p].email]_vars

\* C15 witness: a request for an unknown email is answered with success
\* while the table holds a token stored by a request for a known email.
C15_Witness ==
    /\ res.op = "request"
    /\ res.out = "ok"
    /\ ~\E u \in users : u.email = res.email
    /\ resetTokens # {}

\* The unused, unexpired token rows of an identity.
LiveTokens(user_id) ==
    {r \in resetTokens :
        r.user_id = user_id /\ ~r.is_used /\ r.expires_at > now}

\* C16 (as claimed): in every state of the store an identity has at most
\* one live reset token, also when two requests for its email run
\* concurrently.
C16_OneLiveToken == \A u \in users : Cardinality(LiveTokens(u.id)) <= 1

\* C17: a register for an email that belongs to an identity when the
\* request looks it up is answered AlreadyRegistered and changes nothing:
\* no pending row is created, replaced or deleted, no mail is sent and the
\* request does no further work; a register goes on only when the email
\* belongs to no identity.
C17_AlreadyRegisteredChangesNothing ==
    [][/\ \A p \in Procs :
             (procs[p].pc = "idle" /\ procs'[p].pc = "reg_pending")
                => ~\E u \in users : u.email = procs'[p].email
       /\ (res'.op = "register" /\ res'.out = "AlreadyRegistered")
             => /\ \E u \in users : u.email = res'.email
                /\ pending' = pending
                /\ users' = users
                /\ procs' = procs
                /\ ~res'.sent
                /\ res'.code = ""]_vars

\* C17 witness: a register is refused for the email of an identity that a
\* confirm created.
C17_Witness ==
    /\ res.op = "register"
    /\ res.out = "AlreadyRegistered"
    /\ \E u \in users : u.email = res.email

\* C18 (as claimed): a resend_pin for an email without a pending row is
\* answered NotFound and changes nothing; a resend_pin that found a pending
\* row ends with that row carrying the new code and expiry and nothing else
\* changed, after which verify_pin accepts the new code (until it expires)
\* and no longer accepts the code that was replaced.
C18_ResendReplacesCode ==
    [][/\ (res'.op = "resend" /\ res'.out = "NotFound")
             => /\ PendingFor(res'.email) = {}
                /\ pending' = pending
                /\ procs' = procs
       /\ \A p \in Procs :
             (procs[p].pc = "idle" /\ procs'[p].pc = "resend_commit")
                => PendingFor(procs'[p].email) # {}
       /\ \A p \in Procs :
             (procs[p].pc = "resend_commit" /\ procs'[p].pc = "idle")
                => \E cur \in pending :
                      LET new == [cur EXCEPT !.pin_code = procs[p].code,
                                             !.pin_expires = procs[p].exp]
                      IN /\ cur.id \in {x.id : x \in procs[p].rows}
                         /\ pending' = (pending \ {cur}) \cup {new}
                         /\ now <= new.pin_expires
                               => is_pin_valid(new.pin_code, new.pin_expires,
                                               procs[p].code, now)
                         /\ ~is_pin_valid(new.pin_code, new.pin_expires,
                                          cur.pin_code, now)]_vars

C20_CookieMaxAgeIsTokenLifetime ==
    res.setCookies
        => /\ {c.key : c \in res.cookies} = {"access_token", "refresh_token"}
           /\ Cardinality(res.cookies) = 2
           /\ \A c \in res.cookies :
                 /\ c.httponly
                 /\ c.samesite = "lax"
                 /\ c.path = "/"
                 /\ c.value.type = (IF c.key = "access_token" THEN "access"
                                    ELSE "refresh")
                 /\ c.max_age = (c.value.exp - now) * 60

\* C21 (as claimed): whenever the deployment environment is neither local
\* nor development, a response that binds a session sets Secure on the
\* access cookie and on the refresh cookie.
C21_SecureOutsideDevelopment ==
    (res.setCookies /\ Lower(environment) \notin {"local", "development"})
        => /\ res.cookies # {}
           /\ \A c \in res.cookies : c.secure

\* The token x as it would be with a valid signature and an expiry that
\* has passed at time t.
Expire(x, t) == [x EXCEPT !.sig = "ok", !.exp = t - 1]

\* C22: a token with a broken signature and the same token correctly signed
\* but expired get the same answer wherever they are presented: as access
\* cookie or as refresh cookie of the session resolver, next to any other
\* cookie, and as refresh cookie of the refresh endpoint; outcome, detail,
\* identity and cookies set are equal.
C22_TamperedLikeExpired ==
    \A x \in Held : \A o \in CookieChoices :
        /\ ResolveSession({Forge(x)}, o, users, now, cfgAccess)
              = ResolveSession({Expire(x, now)}, o, users, now, cfgAccess)
        /\ ResolveSession(o, {Forge(x)}, users, now, cfgAccess)
              = ResolveSession(o, {Expire(x, now)}, users, now, cfgAccess)
        /\ RefreshOutcome({Forge(x)}, users, now, cfgAccess)
              = RefreshOutcome({Expire(x, now)}, users, now, cfgAccess)

\* C22 witness: the refresh endpoint has refused a correctly signed refresh
\* token whose expiry has passed, with the answer it gives to a token that
\* does not verify.
C22_Witness ==
    /\ res.op = "refresh"
    /\ res.out = "Unauthenticated"
    /\ res.detail = "Invalid refresh token"
    /\ \E t \in res.reqRefresh :
          t.type = "refresh" /\ t.sig = "ok" /\ t.exp < now

\* C23 (as claimed): a resolve whose access cookie fails verification as an
\* access token (bad signature, expiry passed, or kind other than access)
\* is answered as the refresh cookie alone would be answered: same outcome,
\* same identity, same cookie effect, hence success whenever the refresh
\* token is valid and its identity active.
C23_FallbackOnAnyAccessFailure ==
    [][(/\ res'.op = "resolve"
        /\ \E a \in res'.reqAccess :
              a.sig = "bad" \/ a.exp < now \/ a.type # "access")
        => LET o == RefreshPath(res'.reqRefresh, users, now, cfgAccess) IN
           /\ res'.out = o.out
           /\ res'.uid = o.uid
           /\ res'.setCookies = o.set]_vars

\* C24 (as claimed): in every response that binds a session, whatever the
\* configured access lifetime, the access token set expires strictly before
\* the refresh token set with it.
C24_AccessExpiresBeforeRefresh ==
    res.setCookies =>
        \A a \in res.cookies, r \in res.cookies :
            (a.key = "access_token" /\ r.key = "refresh_token")
                => a.value.exp < r.value.exp

\* C25: a correctly signed, unexpired refresh token of an active identity
\* is accepted each time it is presented, at the refresh endpoint and by the
\* resolver without access cookie, whatever happened before (earlier uses,
\* logout, a newer pair minted from it): the answer is ok for that identity
\* and both cookies are set again.
C25_RefreshTokenReusable ==
    (/\ res.op = "refresh" \/ (res.op = "resolve" /\ res.reqAccess = {})
     /\ ValidRefreshOfActive(res.reqRefresh, users, now))
        => /\ res.out = "ok"
           /\ res.setCookies
           /\ \E rt \in res.reqRefresh : rt.sub = res.uid
           /\ {c.key : c \in res.cookies} = {"access_token", "refresh_token"}
           /\ \A c \in res.cookies : c.value.sub = res.uid

\* C25 witness: the refresh endpoint has accepted a refresh token the client
\* kept, which is no longer the one bound in its cookies.
C25_Witness ==
    /\ res.op = "refresh"
    /\ res.out = "ok"
    /\ kept # {}
    /\ res.reqRefresh = kept
    /\ jar.refresh # kept

\* C26 (as claimed): an admin-only request presenting a correctly signed,
\* unexpired access token that carries the elevated flag, for an identity
\* that exists and is active, is authorized, whether or not the flag has
\* been cleared in the store since the token was issued.
C26_StalePrivilegeHonoured ==
    (/\ res.op = "admin"
     /\ \E a \in res.reqAccess, u \in users :
           /\ a.sig = "ok" /\ a.exp >= now /\ a.type = "access"
           /\ a.is_admin
           /\ u.id = a.sub /\ u.is_active)
        => res.out = "ok"

\* C26 (amended): an admin-only request is authorized only for an identity
\* whose elevated flag is set in the store at the time of the request; with
\* the flag cleared the answer is 403 "Not authorized" and no cookie is set,
\* whatever flag the presented access token carries.
C26_PrivilegeReadFromStore ==
    res.op = "admin" =>
        /\ res.out = "ok" => \E u \in users :
                                u.id = res.uid /\ u.is_active /\ u.is_admin
        /\ \A a \in res.reqAccess, u \in users :
              (/\ a.sig = "ok" /\ a.exp >= now /\ a.type = "access"
               /\ u.id = a.sub /\ u.is_active /\ ~u.is_admin)
                  => /\ res.out = "Forbidden"
                     /\ res.detail = "Not authorized"
                     /\ ~res.setCookies

\* C26 witness: an admin-only request with a valid access token that still
\* carries the elevated flag has been refused after the downgrade.
C26_Witness ==
    /\ res.op = "admin"
    /\ res.out = "Forbidden"
    /\ \E a \in res.reqAccess :
          a.sig = "ok" /\ a.exp >= now /\ a.type = "access" /\ a.is_admin

\* C27 (as claimed): a register request whose pending row is persisted
\* answers, whether or not the mail API ever completes the delivery: a
\* handler that has committed its row and started the delivery always gets
\* to return its response.
C27_RegisterAnswersWithoutDelivery ==
    \A p \in Procs : (procs[p].pc = "reg_send") ~> (procs[p].pc = "idle")

\* C28 (as claimed): a response sets session cookies only for an identity
\* that exists and is active when the response is given, on every issuing
\* path (password login, confirm, refresh endpoint, resolver).
C28_SessionOnlyForActive ==
    res.setCookies =>
        \E u \in users : u.id = res.uid /\ u.is_active

\* C29 (as claimed): under register, resend, confirm and federated login in
\* any interleaving no email has an identity and a pending registration at
\* once; in particular, when a federated login has answered with a session
\* for an email, no pending registration for that email is left.
C29_FederatedLeavesNoPending ==
    /\ \A e \in RegEmails :
          ~(/\ \E u \in users : u.email = e
            /\ \E r \in pending : r.email = e)
    /\ (res.op = "google" /\ res.out = "ok")
          => ~\E r \in pending : r.email = res.email

\* C30: a verify_pin or reset_password that answers NotFound or
\* InvalidOrExpired changes nothing: users, pending rows (code and expiry
\* included) and reset tokens (used flags included) are as before, the
\* browser's cookies are as before and the response sets none.
C30_FailedAttemptChangesNothing ==
    [][(/\ res'.op \in {"verify", "reset"}
        /\ res'.out \in {"NotFound", "InvalidOrExpired"})
        => /\ users' = users
           /\ pending' = pending
           /\ resetTokens' = resetTokens
           /\ jar' = jar
           /\ ~res'.setCookies
           /\ res'.cookies = {}]_vars

\* C30 witness: a reset_password with a wrong token has been refused while
\* an unused, unexpired token is stored, and that token is still unused.
C30_Witness ==
    /\ res.op = "reset"
    /\ res.out = "InvalidOrExpired"
    /\ \E r \in resetTokens :
          /\ ~r.is_used
          /\ r.expires_at > now
          /\ r.token # Sha256(res.tok)

====
